---- MODULE Spec2Model ----
(***************************************************************************)
(* Model of student.py: the plane-sweep-stereo kernels project_impl,       *)
(* unproject_corners_impl, preprocess_ncc_impl and compute_ncc_impl.       *)
(*                                                                         *)
(* Numbers.  The kernels compute with +, -, *, /, sqrt and comparisons.    *)
(* They are modelled in exact arithmetic on the values                     *)
(*        <<n, d, m, e>>  =  (n / d) * sqrt(m) * 10^e                      *)
(* with n, d integers, d > 0 coprime to 10, gcd(n, d) = 1, 10 not dividing *)
(* n, and m a squarefree positive integer.  Every number of that form has  *)
(* one representation, so equality of values is equality of tuples.  The   *)
(* results of a division by zero are the three non-finite values of        *)
(* IEEE-754, written with d = 0.  Rounding and the sign of zero are not    *)
(* modelled.                                                               *)
(*                                                                         *)
(* Arrays.  A numpy array is a reference [buf, shape] to a flat row-major  *)
(* buffer of the heap, as in numpy: reshape returns a view on the same     *)
(* buffer, np.zeros / np.dot / np.pad / np.linalg.inv and the arithmetic   *)
(* operators allocate, and /=, *= and indexed assignment write in place.   *)
(***************************************************************************)
EXTENDS Integers, Sequences, FiniteSets, TLC

\* F(e): the local name that the code gives to a value, e standing for the
\* value and F for the code that follows and uses it.
With(e, F(_)) == F(e)

\* ------------------------------------------------------------- integers

Abs(x) == IF x < 0 THEN -x ELSE x

Min(a, b) == IF a <= b THEN a ELSE b

Max(a, b) == IF a >= b THEN a ELSE b

\* The greatest common divisor of a, b >= 0.
RECURSIVE GCDNat(_, _)
GCDNat(a, b) == IF b = 0 THEN a ELSE GCDNat(b, a % b)

GCD(a, b) == GCDNat(Abs(a), Abs(b))

RECURSIVE Pow10(_)
Pow10(k) == IF k = 0 THEN 1 ELSE 10 * Pow10(k - 1)

\* x = s^2 * f with f squarefree: <<s, f>>, by trial division from k.
RECURSIVE SquarePart(_, _, _)
SquarePart(x, k, s) ==
    IF k * k > x THEN <<s, x>>
    ELSE IF x % (k * k) = 0 THEN SquarePart(x \div (k * k), k, s * k)
    ELSE SquarePart(x, k + 1, s)

\* -------------------------------------------------------------- numbers

Zero == <<0, 1, 1, 0>>

One == <<1, 1, 1, 0>>

NaN == <<0, 0, 1, 0>>

Inf(sign) == <<sign, 0, 1, 0>>

IsFinite(x) == x[2] # 0

IsZero(x) == x[2] # 0 /\ x[1] = 0

IsNaN(x) == x[2] = 0 /\ x[1] = 0

IsInf(x) == x[2] = 0 /\ x[1] # 0

Sign(x) == IF x[1] > 0 THEN 1 ELSE IF x[1] < 0 THEN -1 ELSE 0

\* Move the factors 2 and 5 of the denominator into the decimal exponent.
RECURSIVE DenFix(_, _, _)
DenFix(n, d, e) ==
    IF d % 2 = 0 THEN DenFix(n * 5, d \div 2, e - 1)
    ELSE IF d % 5 = 0 THEN DenFix(n * 2, d \div 5, e - 1)
    ELSE <<n, d, e>>

\* Move the factors 10 of the numerator into the decimal exponent.
RECURSIVE Strip10(_, _)
Strip10(n, e) == IF Abs(n) % 10 = 0 THEN Strip10(n \div 10, e + 1) ELSE <<n, e>>

\* The canonical form of (n / d) * sqrt(m) * 10^e, d # 0, m squarefree.
Num(n, d, m, e) ==
    IF n = 0 THEN Zero
    ELSE With(GCD(n, d), LAMBDA g :
         With(IF d < 0 THEN DenFix(-(n \div g), -(d \div g), e)
                       ELSE DenFix(n \div g, d \div g, e), LAMBDA f :
         With(Strip10(f[1], f[3]), LAMBDA t :
             <<t[1], f[2], m, t[2]>>)))

Whole(i) == Num(i, 1, 1, 0)

\* i * 10^e
Dec(i, e) == Num(i, 1, 1, e)

Neg(x) == <<-x[1], x[2], x[3], x[4]>>

Mul(x, y) ==
    CASE IsNaN(x) \/ IsNaN(y) -> NaN
      [] IsInf(x) \/ IsInf(y) ->
           IF IsZero(x) \/ IsZero(y) THEN NaN ELSE Inf(Sign(x) * Sign(y))
      [] IsZero(x) \/ IsZero(y) -> Zero
      [] OTHER ->
           With(GCD(x[3], y[3]), LAMBDA g :
               Num(x[1] * y[1] * g, x[2] * y[2],
                   (x[3] \div g) * (y[3] \div g), x[4] + y[4]))

\* A sum of two multiples of the same square root: the kernels add only
\* rationals, and products of two vectors that each carry one norm.
Add(x, y) ==
    CASE IsNaN(x) \/ IsNaN(y) -> NaN
      [] IsInf(x) /\ IsInf(y) -> IF Sign(x) = Sign(y) THEN x ELSE NaN
      [] IsInf(x) -> x
      [] IsInf(y) -> y
      [] IsZero(x) -> y
      [] IsZero(y) -> x
      [] x[1] # 0 /\ y[1] # 0 /\ x[3] = y[3] ->
           With(Min(x[4], y[4]), LAMBDA e :
               Num(x[1] * y[2] * Pow10(x[4] - e) + y[1] * x[2] * Pow10(y[4] - e),
                   x[2] * y[2], x[3], e))

Sub(x, y) == Add(x, Neg(y))

\* IEEE-754 division: x / 0 is an infinity, 0 / 0 is NaN.
Div(x, y) ==
    CASE IsNaN(x) \/ IsNaN(y) -> NaN
      [] IsInf(x) -> IF IsInf(y) THEN NaN ELSE Inf(Sign(x) * (IF Sign(y) < 0 THEN -1 ELSE 1))
      [] IsInf(y) -> Zero
      [] IsZero(y) -> IF IsZero(x) THEN NaN ELSE Inf(Sign(x))
      [] IsZero(x) -> Zero
      [] OTHER -> Mul(x, Num(y[2], y[1] * y[3], y[3], -y[4]))

\* The square root of a rational.
Sqrt(x) ==
    CASE IsNaN(x) \/ x[1] < 0 -> NaN
      [] IsInf(x) -> x
      [] IsZero(x) -> Zero
      [] x[1] > 0 /\ x[3] = 1 ->
           IF x[4] % 2 = 0
           THEN With(SquarePart(x[1] * x[2], 2, 1), LAMBDA sf :
                    Num(sf[1], x[2], sf[2], x[4] \div 2))
           ELSE With(SquarePart(x[1] * 10 * x[2], 2, 1), LAMBDA sf :
                    Num(sf[1], x[2], sf[2], (x[4] - 1) \div 2))

\* a * 10^k >= b for integers a, b > 0 and k >= 0, without overflow.
RECURSIVE GeqScaled(_, _, _)
GeqScaled(a, k, b) ==
    IF a >= b THEN TRUE
    ELSE IF k = 0 THEN FALSE
    ELSE GeqScaled(a * 10, k - 1, b)

\* a >= b * 10^k for integers a, b > 0 and k >= 0, without overflow.
RECURSIVE GeqDown(_, _, _)
GeqDown(a, b, k) ==
    IF a < b THEN FALSE
    ELSE IF k = 0 THEN TRUE
    ELSE GeqDown(a, b * 10, k - 1)

\* x >= y for finite y >= 0 and x >= 0 or not finite: the squares, which are
\* rationals, compared.  No comparison with NaN is true.
Geq(x, y) ==
    IF ~IsFinite(x) THEN IsInf(x) /\ Sign(x) > 0
    ELSE IF IsZero(y) THEN TRUE
    ELSE IF IsZero(x) THEN FALSE
    ELSE LET a == x[1] * x[1] * x[3] * y[2] * y[2]
             b == y[1] * y[1] * y[3] * x[2] * x[2]
             k == 2 * x[4] - 2 * y[4]
         IN  IF k >= 0 THEN GeqScaled(a, k, b) ELSE GeqDown(a, b, -k)

\* --------------------------------------------------------------- arrays

\* The number of elements of an array of this shape.
RECURSIVE Prod(_)
Prod(shape) == IF shape = <<>> THEN 1 ELSE Head(shape) * Prod(Tail(shape))

\* The row-major offset of the index idx (0-based, as in Python) over the
\* first d axes.
RECURSIVE OffsetTo(_, _, _)
OffsetTo(shape, idx, d) ==
    IF d = 0 THEN 0 ELSE OffsetTo(shape, idx, d - 1) * shape[d] + idx[d]

Offset(shape, idx) == OffsetTo(shape, idx, Len(shape))

\* The buffer contents data as a sequence (evaluated once, when stored).
Buffer(data) == data \o <<>>

\* A fresh buffer holding data, and the array of that shape on it.
Alloc(hp, shape, data) ==
    [hp |-> Append(hp, Buffer(data)), arr |-> [buf |-> Len(hp) + 1, shape |-> shape]]

\* a[idx]
Get(hp, a, idx) == hp[a.buf][Offset(a.shape, idx) + 1]

\* a[idx] = v
Put(hp, a, idx, v) == [hp EXCEPT ![a.buf][Offset(a.shape, idx) + 1] = v]

\* The assignments a[idx] = v of the sequence ups of pairs <<idx, v>>, in
\* order (a later one of the same element wins).
PutAll(hp, a, ups) ==
    [hp EXCEPT ![a.buf] =
        Buffer([t \in DOMAIN @ |->
                   LET hits == {u \in DOMAIN ups : Offset(a.shape, ups[u][1]) + 1 = t}
                   IN  IF hits = {} THEN @[t]
                       ELSE ups[CHOOSE u \in hits : \A v \in hits : v <= u][2]])]

\* The indices start:stop selects on an axis of length n (step 1): Python's
\* rule, a negative bound counting from the end and both clipped to 0..n.
PySlice(start, stop, n) ==
    LET lo == IF start < 0 THEN Max(start + n, 0) ELSE Min(start, n)
        hi == IF stop < 0 THEN Max(stop + n, 0) ELSE Min(stop, n)
    IN  [first |-> lo, len |-> Max(hi - lo, 0)]

\* start: (no stop) on an axis of length n.
PySliceFrom(start, n) ==
    LET lo == IF start < 0 THEN Max(start + n, 0) ELSE Min(start, n)
    IN  [first |-> lo, len |-> n - lo]

np_zeros(hp, shape) == Alloc(hp, shape, [t \in 1..Prod(shape) |-> Zero])

RECURSIVE SumRange(_, _, _)
\* f[lo] + ... + f[hi], added pairwise by halves; the numbers being exact,
\* the order of the additions does not change the sum.
SumRange(f, lo, hi) ==
    IF lo > hi THEN Zero
    ELSE IF lo = hi THEN f[lo]
    ELSE LET mid == (lo + hi) \div 2
         IN  Add(SumRange(f, lo, mid), SumRange(f, mid + 1, hi))

\* f[1] + ... + f[n]
SumTo(f, n) == SumRange(f, 1, n)

\* np.dot of a matrix A (r x c) and a vector v (c): a new vector (r).
np_dot(hp, A, v) ==
    LET r == A.shape[1]
        c == A.shape[2]
    IN  Alloc(hp, <<r>>,
              [i \in 1..r |->
                  SumTo([j \in 1..c |-> Mul(hp[A.buf][(i - 1) * c + j], hp[v.buf][j])], c)])

\* a /= s and a *= s with a scalar s: in place, on a's own buffer.
idiv(hp, a, s) == [hp EXCEPT ![a.buf] = Buffer([t \in DOMAIN @ |-> Div(@[t], s)])]

imul(hp, a, s) == [hp EXCEPT ![a.buf] = Buffer([t \in DOMAIN @ |-> Mul(@[t], s)])]

\* The matrix held by the 2-D array a, as rows.
Rows(hp, a) ==
    Buffer([i \in 1..a.shape[1] |->
               Buffer([j \in 1..a.shape[2] |-> hp[a.buf][(i - 1) * a.shape[2] + j]])])

Minor(M, i, j) ==
    Buffer([r \in 1..(Len(M) - 1) |->
               Buffer([c \in 1..(Len(M) - 1) |->
                          M[IF r < i THEN r ELSE r + 1][IF c < j THEN c ELSE c + 1]])])

RECURSIVE Det(_)
Det(M) ==
    IF Len(M) = 1 THEN M[1][1]
    ELSE SumTo([j \in 1..Len(M) |->
                   IF j % 2 = 1 THEN Mul(M[1][j], Det(Minor(M, 1, j)))
                   ELSE Neg(Mul(M[1][j], Det(Minor(M, 1, j))))], Len(M))

NoArr == [buf |-> 0, shape |-> <<>>]

\* The inverse of the matrix M of determinant d # 0, row-major: the
\* cofactors transposed, over d.
Inverse(M, d) ==
    [t \in 1..(Len(M) * Len(M)) |->
        With(((t - 1) \div Len(M)) + 1, LAMBDA i :
        With(((t - 1) % Len(M)) + 1, LAMBDA j :
        With(Det(Minor(M, j, i)), LAMBDA cof :
            Div(IF (i + j) % 2 = 0 THEN cof ELSE Neg(cof), d))))]

\* A variant of np_linalg_inv that writes the inverse over its argument and
\* returns that same array.
np_linalg_inv_in_place(hp, a) ==
    With(Rows(hp, a), LAMBDA M :
    With(Det(M), LAMBDA d :
        IF IsZero(d) THEN [hp |-> hp, arr |-> NoArr, err |-> "LinAlgError"]
        ELSE [hp |-> [hp EXCEPT ![a.buf] = Buffer(Inverse(M, d))], arr |-> a,
              err |-> "none"]))

\* np.linalg.inv: a new array, or LinAlgError("Singular matrix").
np_linalg_inv(hp, a) ==
    With(Rows(hp, a), LAMBDA M :
    With(Det(M), LAMBDA d :
        IF IsZero(d) THEN [hp |-> hp, arr |-> NoArr, err |-> "LinAlgError"]
        ELSE With(Alloc(hp, a.shape, Inverse(M, d)), LAMBDA inv :
                 [hp |-> inv.hp, arr |-> inv.arr, err |-> "none"])))

\* np.pad(a, [(0, 1), (0, 0)], mode='constant'): a new array, one zero row
\* appended.
np_pad(hp, a) ==
    Alloc(hp, <<a.shape[1] + 1, a.shape[2]>>,
          hp[a.buf] \o [t \in 1..a.shape[2] |-> Zero])

\* ------------------------------------------------------------ project_impl

\* One pass of the loop body of project_impl (lines 25-34), for out_img[h, w].
project_cell(hp, K, Rt, points, out_img, h, w) ==
    With(np_zeros(hp, <<4>>), LAMBDA in_vec :
    With(PutAll(in_vec.hp, in_vec.arr,
                << <<<<0>>, Get(in_vec.hp, points, <<h, w, 0>>)>>,
                   <<<<1>>, Get(in_vec.hp, points, <<h, w, 1>>)>>,
                   <<<<2>>, Get(in_vec.hp, points, <<h, w, 2>>)>>,
                   <<<<3>>, One>> >>), LAMBDA hp1 :
    With(np_dot(hp1, Rt, in_vec.arr), LAMBDA ext_point :
    With(np_dot(ext_point.hp, K, ext_point.arr), LAMBDA int_point :
    With(idiv(int_point.hp, int_point.arr,
              Get(int_point.hp, int_point.arr, <<2>>)), LAMBDA hp2 :
        PutAll(hp2, out_img,
               << <<<<h, w, 0>>, Get(hp2, int_point.arr, <<0>>)>>,
                  <<<<h, w, 1>>, Get(hp2, int_point.arr, <<1>>)>> >>))))))

\* The loops of lines 23-24 from cell p = h * width + w on.  (The test on
\* nxt makes TLC evaluate the heap of one pass before it starts the next.)
RECURSIVE project_loop(_, _, _, _, _, _)
project_loop(hp, K, Rt, points, out_img, p) ==
    IF p = points.shape[1] * points.shape[2] THEN hp
    ELSE With(project_cell(hp, K, Rt, points, out_img,
                           p \div points.shape[2], p % points.shape[2]), LAMBDA nxt :
             IF Len(nxt) = 0 THEN nxt
             ELSE project_loop(nxt, K, Rt, points, out_img, p + 1))

project_impl(hp, K, Rt, points) ==
    With(np_zeros(hp, <<points.shape[1], points.shape[2], 2>>), LAMBDA out_img :
        [hp  |-> project_loop(out_img.hp, K, Rt, points, out_img.arr, 0),
         arr |-> out_img.arr, err |-> "none"])

\* --------------------------------------------------- unproject_corners_impl

\* A variant of corner_pixel that takes the row index h for the horizontal
\* axis and the column index w for the vertical one.
corner_pixel_swapped(width, height, h, w) ==
    <<IF h = 0 THEN Zero ELSE Whole(width - 1), IF w = 0 THEN Zero ELSE Whole(height - 1)>>

\* The pixel coordinate (x, y) written to out_corners[h, w] before the loop
\* (lines 63-73).
corner_pixel(width, height, h, w) ==
    <<IF w = 0 THEN Zero ELSE Whole(width - 1), IF h = 0 THEN Zero ELSE Whole(height - 1)>>

\* One pass of the loop body of unproject_corners_impl (lines 78-102).
unproject_cell(hp, K_inv, Rt_inv, out_corners, h, w) ==
    With(np_zeros(hp, <<3>>), LAMBDA pixel :
    With(PutAll(pixel.hp, pixel.arr,
                << <<<<0>>, Get(pixel.hp, out_corners, <<h, w, 0>>)>>,
                   <<<<1>>, Get(pixel.hp, out_corners, <<h, w, 1>>)>>,
                   <<<<2>>, One>> >>), LAMBDA hp1 :
    With(np_dot(hp1, K_inv, pixel.arr), LAMBDA curr_vec :
    With(np_zeros(curr_vec.hp, <<4>>), LAMBDA temp_vec :
    With(PutAll(temp_vec.hp, temp_vec.arr,
                << <<<<0>>, Get(curr_vec.hp, curr_vec.arr, <<0>>)>>,
                   <<<<1>>, Get(curr_vec.hp, curr_vec.arr, <<1>>)>>,
                   <<<<2>>, Get(curr_vec.hp, curr_vec.arr, <<2>>)>>,
                   <<<<3>>, One>> >>), LAMBDA hp2 :
    With(np_dot(hp2, Rt_inv, temp_vec.arr), LAMBDA world :
    With(idiv(world.hp, world.arr, Get(world.hp, world.arr, <<3>>)), LAMBDA hp3 :
        PutAll(hp3, out_corners,
               << <<<<h, w, 0>>, Get(hp3, world.arr, <<0>>)>>,
                  <<<<h, w, 1>>, Get(hp3, world.arr, <<1>>)>>,
                  <<<<h, w, 2>>, Get(hp3, world.arr, <<2>>)>> >>))))))))

\* The loops of lines 75-76 from cell p = 2 * h + w on.
RECURSIVE unproject_loop(_, _, _, _, _)
unproject_loop(hp, K_inv, Rt_inv, out_corners, p) ==
    IF p = 4 THEN hp
    ELSE With(unproject_cell(hp, K_inv, Rt_inv, out_corners, p \div 2, p % 2), LAMBDA nxt :
             IF Len(nxt) = 0 THEN nxt
             ELSE unproject_loop(nxt, K_inv, Rt_inv, out_corners, p + 1))

\* out_corners[h, w, 0] and out_corners[h, w, 1] of the four cells
\* (lines 63-73).
set_corners(hp, out_corners, width, height) ==
    PutAll(hp, out_corners,
           [q \in 1..8 |->
               LET h == ((q - 1) \div 2) \div 2
                   w == ((q - 1) \div 2) % 2
                   c == (q - 1) % 2
               IN  <<<<h, w, c>>, corner_pixel(width, height, h, w)[c + 1]>>])

unproject_corners_impl(hp, K, width, height, depth, Rt) ==
    With(np_pad(hp, Rt), LAMBDA pad :
    With(np_linalg_inv(Put(pad.hp, pad.arr, <<3, 3>>, One), pad.arr), LAMBDA Rt_inv :
        IF Rt_inv.err # "none" THEN [hp |-> Rt_inv.hp, arr |-> NoArr, err |-> Rt_inv.err]
        ELSE
    With(np_linalg_inv(Rt_inv.hp, K), LAMBDA K_inv :
        IF K_inv.err # "none" THEN [hp |-> K_inv.hp, arr |-> NoArr, err |-> K_inv.err]
        ELSE
    With(np_zeros(imul(K_inv.hp, K_inv.arr, depth), <<2, 2, 3>>), LAMBDA out_corners :
        [hp  |-> unproject_loop(set_corners(out_corners.hp, out_corners.arr, width, height),
                                K_inv.arr, Rt_inv.arr, out_corners.arr, 0),
         arr |-> out_corners.arr, err |-> "none"]))))

\* ----------------------------------------------------- whole-array operations

\* a.reshape(shape): a view on a's buffer, or ValueError when the sizes differ.
reshape(hp, a, shape) ==
    IF Prod(shape) = Prod(a.shape)
    THEN [hp |-> hp, arr |-> [buf |-> a.buf, shape |-> shape], err |-> "none"]
    ELSE [hp |-> hp, arr |-> NoArr, err |-> "ValueError"]

\* The sum of the block of m consecutive elements number g (from 1) of buf.
BlockSum(buf, g, m) == SumTo([u \in 1..m |-> buf[(g - 1) * m + u]], m)

\* The shape of a with its last axis reduced to length 1 (keepdims=True).
KeepDims(shape) == [d \in 1..Len(shape) |-> IF d = Len(shape) THEN 1 ELSE shape[d]]

\* A variant of np_mean that takes one mean over the last two axes, all the
\* channels of a pixel together.
np_mean_all_channels(hp, a) ==
    With(a.shape[Len(a.shape)] * a.shape[Len(a.shape) - 1], LAMBDA m :
        Alloc(hp, KeepDims(a.shape),
              [g \in 1..Prod(KeepDims(a.shape)) |->
                  Div(BlockSum(hp[a.buf], ((g - 1) \div a.shape[Len(a.shape) - 1]) + 1, m),
                      Whole(m))]))

\* np.mean(a, axis=last, keepdims=True)
np_mean(hp, a) ==
    With(a.shape[Len(a.shape)], LAMBDA m :
        Alloc(hp, KeepDims(a.shape),
              [g \in 1..Prod(KeepDims(a.shape)) |->
                  Div(BlockSum(hp[a.buf], g, m), Whole(m))]))

\* x * flag for a boolean flag: False is 0 and True is 1.
MulBool(x, flag) == Mul(x, IF flag THEN One ELSE Zero)

\* x op y for the operators the kernels apply to whole arrays.
Apply(op, x, y) ==
    CASE op = "-" -> Sub(x, y)
      [] op = "*" -> Mul(x, y)
      [] op = "/" -> Div(x, y)
      [] op = "* mask" -> MulBool(x, y)

\* a op b element by element, b having a's shape with its last axes
\* replaced by 1 and being broadcast along them: a new array.
Elementwise(op, hp, a, b) ==
    With(Prod(a.shape) \div Prod(b.shape), LAMBDA m :
        Alloc(hp, a.shape,
              [t \in 1..Prod(a.shape) |->
                  Apply(op, hp[a.buf][t], hp[b.buf][((t - 1) \div m) + 1])]))

\* a - b, a * b, a / b
np_sub(hp, a, b) == Elementwise("-", hp, a, b)

np_mul(hp, a, b) == Elementwise("*", hp, a, b)

np_div(hp, a, b) == Elementwise("/", hp, a, b)

\* a * mask for a boolean mask
np_mul_mask(hp, a, mask) == Elementwise("* mask", hp, a, mask)

\* np.linalg.norm(a, axis=2, keepdims=True) of a 3-D array.
np_linalg_norm(hp, a) ==
    Alloc(hp, <<a.shape[1], a.shape[2], 1>>,
          [g \in 1..(a.shape[1] * a.shape[2]) |->
              Sqrt(SumTo([u \in 1..a.shape[3] |->
                             Mul(hp[a.buf][(g - 1) * a.shape[3] + u],
                                 hp[a.buf][(g - 1) * a.shape[3] + u])],
                         a.shape[3]))])

\* np.sum(a, axis=(2, 3, 4)) of a 5-D array: a new 2-D array.
np_sum(hp, a) ==
    Alloc(hp, <<a.shape[1], a.shape[2]>>,
          [g \in 1..(a.shape[1] * a.shape[2]) |->
              BlockSum(hp[a.buf], g, a.shape[3] * a.shape[4] * a.shape[5])])

\* A variant of np_sqrt that returns a copy of its argument.
np_sqrt_skipped(hp, a) == Alloc(hp, a.shape, hp[a.buf])

np_sqrt(hp, a) == Alloc(hp, a.shape, [t \in 1..Prod(a.shape) |-> Sqrt(hp[a.buf][t])])

\* A variant of set_zeros_to_one that leaves the zeros.
keep_zeros(hp, a) == hp

\* a[a == 0] = 1, in place.
set_zeros_to_one(hp, a) ==
    [hp EXCEPT ![a.buf] = Buffer([t \in DOMAIN @ |-> IF IsZero(@[t]) THEN One ELSE @[t]])]

\* a >= x for a scalar x: a new boolean array.
np_geq(hp, a, x) == Alloc(hp, a.shape, [t \in 1..Prod(a.shape) |-> Geq(hp[a.buf][t], x)])

\* mask[rows, cols] = False for two slices of a (h, w, 1) array, in place.
set_false(hp, mask, rows, cols) ==
    [hp EXCEPT ![mask.buf] =
        Buffer([t \in DOMAIN @ |->
                   IF /\ rows.first <= (t - 1) \div mask.shape[2]
                      /\ (t - 1) \div mask.shape[2] < rows.first + rows.len
                      /\ cols.first <= (t - 1) % mask.shape[2]
                      /\ (t - 1) % mask.shape[2] < cols.first + cols.len
                   THEN FALSE ELSE @[t]])]

\* ------------------------------------------------------ preprocess_ncc_impl

\* The threshold 1e-6 of line 190.
NormThreshold == Dec(1, -6)

\* Whether numpy can assign a source axis of length s to a target axis of
\* length t: equal, or s = 1 (broadcast).
Assignable(s, t) == s = t \/ s = 1

\* The slices of line 179 for the offsets i, j: target rows and columns of
\* normalized, source rows and columns of image.
patch_slices(h, w, k, i, j) ==
    [trows |-> PySlice(k, h - k, h), tcols |-> PySlice(k, w - k, w),
     srows |-> PySlice(i, h - 2 * k + i, h), scols |-> PySlice(j, w - 2 * k + j, w)]

\* Whether the assignment of line 179 for the offsets i, j is accepted.
patch_assignable(h, w, k, i, j) ==
    With(patch_slices(h, w, k, i, j), LAMBDA s :
        Assignable(s.srows.len, s.trows.len) /\ Assignable(s.scols.len, s.tcols.len))

\* The image element that line 179 assigns to normalized[y, x, ch, i, j],
\* the slices being s.
source_index(s, y, x, ch) ==
    <<s.srows.first + (IF s.srows.len = 1 THEN 0 ELSE y - s.trows.first),
      s.scols.first + (IF s.scols.len = 1 THEN 0 ELSE x - s.tcols.first),
      ch>>

\* A variant of patch_source that reads the window transposed: the offset i
\* along the columns and j along the rows.
patch_source_transposed(h, w, k, y, x, ch, i, j) ==
    source_index(patch_slices(h, w, k, j, i), y, x, ch)

\* The image element that line 179 assigns to normalized[y, x, ch, i, j].
patch_source(h, w, k, y, x, ch, i, j) ==
    source_index(patch_slices(h, w, k, i, j), y, x, ch)

\* Whether the slice s holds the index y.
InSlice(s, y) == s.first <= y /\ y < s.first + s.len

\* The two loops of lines 164-179.  Pass (i, j) writes the plane
\* normalized[:, :, :, i, j] and no other, so the passes are given together:
\* every element of the target region takes the image element of its pass.
\* The first pass numpy rejects raises ValueError.
fill_patches(hp, normalized, image, ncc_size) ==
    With(image.shape[1], LAMBDA h :
    With(image.shape[2], LAMBDA w :
    With(image.shape[3], LAMBDA c :
    With(ncc_size \div 2, LAMBDA k :
    With(patch_slices(h, w, k, 0, 0), LAMBDA t :
        IF \A i, j \in 0..(ncc_size - 1) : patch_assignable(h, w, k, i, j)
        THEN [hp |-> [hp EXCEPT ![normalized.buf] =
                         Buffer([q \in DOMAIN @ |->
                             With((q - 1) \div (ncc_size * ncc_size * c * w), LAMBDA y :
                             With(((q - 1) \div (ncc_size * ncc_size * c)) % w, LAMBDA x :
                                 IF InSlice(t.trows, y) /\ InSlice(t.tcols, x)
                                 THEN Get(hp, image,
                                          patch_source(h, w, k, y, x,
                                              ((q - 1) \div (ncc_size * ncc_size)) % c,
                                              ((q - 1) \div ncc_size) % ncc_size,
                                              (q - 1) % ncc_size))
                                 ELSE @[q]))])],
              err |-> "none"]
        ELSE [hp |-> hp, err |-> "ValueError"])))))

\* Lines 184-198: mean subtraction, norm, mask and division.
normalize_patches(hp, normalized, h, w, c, k) ==
    With(reshape(hp, normalized, <<h, w, c, Prod(normalized.shape) \div (h * w * c)>>).arr,
         LAMBDA blocks :
    With(np_mean(hp, blocks), LAMBDA mean :
    With(np_sub(mean.hp, blocks, mean.arr), LAMBDA sub :
    With(reshape(sub.hp, sub.arr, <<h, w, Prod(sub.arr.shape) \div (h * w)>>).arr,
         LAMBDA vectors :
    With(np_linalg_norm(sub.hp, vectors), LAMBDA norm :
    With(np_geq(set_zeros_to_one(norm.hp, norm.arr), norm.arr, NormThreshold), LAMBDA mask :
    With(set_false(
           set_false(
             set_false(
               set_false(mask.hp, mask.arr, PySlice(0, k, h), PySliceFrom(0, w)),
               mask.arr, PySliceFrom(-k, h), PySliceFrom(0, w)),
             mask.arr, PySliceFrom(0, h), PySlice(0, k, w)),
           mask.arr, PySliceFrom(0, h), PySliceFrom(-k, w)), LAMBDA hp1 :
    With(np_mul_mask(hp1, vectors, mask.arr), LAMBDA prod :
    With(np_div(prod.hp, prod.arr, norm.arr), LAMBDA quot :
        [hp |-> quot.hp, arr |-> quot.arr, err |-> "none"])))))))))

preprocess_ncc_impl(hp, image, ncc_size) ==
    With(np_zeros(hp, <<image.shape[1], image.shape[2], image.shape[3], ncc_size, ncc_size>>),
         LAMBDA normalized :
    With(fill_patches(normalized.hp, normalized.arr, image, ncc_size), LAMBDA filled :
        IF filled.err # "none" THEN [hp |-> filled.hp, arr |-> NoArr, err |-> filled.err]
        ELSE normalize_patches(filled.hp, normalized.arr, image.shape[1], image.shape[2],
                               image.shape[3], ncc_size \div 2)))

\* --------------------------------------------------------- compute_ncc_impl

\* int(np.sqrt(x)) for an integer x >= 0.
RECURSIVE IntSqrtFrom(_, _)
IntSqrtFrom(x, r) == IF (r + 1) * (r + 1) > x THEN r ELSE IntSqrtFrom(x, r + 1)

\* A variant of correlate whose denominator takes the first field's sum of
\* squares twice.
correlate_one_sided(hp, image1, image2) ==
    With(np_mul(hp, image1, image2), LAMBDA prod :
    With(np_sum(prod.hp, prod.arr), LAMBDA numerator :
    With(np_mul(numerator.hp, image1, image1), LAMBDA sq1 :
    With(np_sum(sq1.hp, sq1.arr), LAMBDA sum1 :
    With(np_mul(sum1.hp, sum1.arr, sum1.arr), LAMBDA both :
    With(np_sqrt(both.hp, both.arr), LAMBDA denominator :
    With(np_div(set_zeros_to_one(denominator.hp, denominator.arr),
                numerator.arr, denominator.arr), LAMBDA ncc :
        [hp |-> ncc.hp, arr |-> ncc.arr, err |-> "none"])))))))

\* Lines 221-228 on the two reshaped arrays.
correlate(hp, image1, image2) ==
    With(np_mul(hp, image1, image2), LAMBDA prod :
    With(np_sum(prod.hp, prod.arr), LAMBDA numerator :
    With(np_mul(numerator.hp, image1, image1), LAMBDA sq1 :
    With(np_sum(sq1.hp, sq1.arr), LAMBDA sum1 :
    With(np_mul(sum1.hp, image2, image2), LAMBDA sq2 :
    With(np_sum(sq2.hp, sq2.arr), LAMBDA sum2 :
    With(np_mul(sum2.hp, sum1.arr, sum2.arr), LAMBDA both :
    With(np_sqrt(both.hp, both.arr), LAMBDA denominator :
    With(np_div(set_zeros_to_one(denominator.hp, denominator.arr),
                numerator.arr, denominator.arr), LAMBDA ncc :
        [hp |-> ncc.hp, arr |-> ncc.arr, err |-> "none"])))))))))

compute_ncc_impl(hp, image1, image2) ==
    With(IntSqrtFrom(image1.shape[3] \div image1.shape[3], 0), LAMBDA ncc_size :
    With(<<image1.shape[1], image1.shape[2], image1.shape[3], ncc_size, ncc_size>>,
         LAMBDA shape :
    With(reshape(hp, image1, shape), LAMBDA r1 :
    With(reshape(hp, image2, shape), LAMBDA r2 :
        IF r1.err # "none" THEN [hp |-> hp, arr |-> NoArr, err |-> r1.err]
        ELSE IF r2.err # "none" THEN [hp |-> hp, arr |-> NoArr, err |-> r2.err]
        ELSE correlate(hp, r1.arr, r2.arr)))))

\* ------------------------------------------------------------- the caller

\* Bounds of the inputs.
MaxFocal == 2

MaxDim == 2

MaxDepth == 1

MaxSide == 4

MaxChan == 2

MaxVal == 4

MaxNcc == 5

TinyExp == 7

MaxFieldSide == 2

VARIABLES
    heap,   \* the buffers of the caller's arrays
    env,    \* the caller's variables: arrays (references) and scalars
    ret,    \* the last call: kernel, error raised, shape and data returned, and
            \* frame, every buffer of the call when it ended
    hist,   \* every <<kernel, error, shape, data>> returned so far
    args0   \* the buffers of the input arrays as the caller filled them

vars == <<heap, env, ret, hist, args0>>

NoEnv ==
    [kind |-> "none", K |-> NoArr, Rt |-> NoArr, width |-> 0, height |-> 0, depth |-> Zero,
     points |-> NoArr, image |-> NoArr, ncc_size |-> 0, feat |-> NoArr,
     image1 |-> NoArr, image2 |-> NoArr]

NoRet == [fn |-> "none", err |-> "none", shape |-> <<>>, data |-> <<>>, frame |-> <<>>]

\* What the caller sees of the call of kernel fn that ended as r.
Returned(fn, r) ==
    [fn |-> fn, err |-> r.err, shape |-> r.arr.shape,
     data |-> IF r.err = "none" THEN r.hp[r.arr.buf] ELSE <<>>,
     frame |-> r.hp]

\* The entry of hist for a call that returned out.
Outcome(out) == [fn |-> out.fn, err |-> out.err, shape |-> out.shape, data |-> out.data]

\* The intrinsics [[f, s, 1], [0, f + s, 1], [g, 0, 1]]: singular when
\* f + s = g.
Intrinsics(f, s, g) ==
    [t \in 1..9 |-> Whole(<<f, s, 1, 0, f + s, 1, g, 0, 1>>[t])]

\* The extrinsics [[a, -b, 0, t], [b, a, 1, 0], [0, 0, 1, 2t]]: singular
\* when a = b = 0.
Extrinsics(a, b, t) ==
    [u \in 1..12 |-> Whole(<<a, -b, 0, t, b, a, 1, 0, 0, 0, 1, 2 * t>>[u])]

InitGeom ==
    \E f \in {1, MaxFocal}, s, g \in {0, 1},
       rot \in {<<1, 0, 0>>, <<0, 1, 1>>, <<-1, 1, 1>>, <<0, 0, 1>>},
       width, height \in 1..MaxDim, depth \in {-1, 0, MaxDepth} :
        /\ heap = <<Buffer(Intrinsics(f, s, g)), Buffer(Extrinsics(rot[1], rot[2], rot[3]))>>
        /\ env = [NoEnv EXCEPT !.kind = "geom",
                               !.K = [buf |-> 1, shape |-> <<3, 3>>],
                               !.Rt = [buf |-> 2, shape |-> <<3, 4>>],
                               !.width = width, !.height = height,
                               !.depth = Whole(depth)]
        /\ ret = NoRet
        /\ hist = {}
        /\ args0 = heap

\* points = unproject_corners_impl(K, width, height, depth, Rt)
Unproject ==
    /\ env.kind = "geom"
    /\ \E r \in {unproject_corners_impl(heap, env.K, env.width, env.height, env.depth, env.Rt)} :
       \E out \in {Returned("unproject_corners_impl", r)} :
           /\ ret' = out
           /\ heap' = SubSeq(r.hp, 1, 2) \o (IF r.err = "none" THEN <<out.data>> ELSE <<>>)
           /\ env' = [env EXCEPT !.points =
                         IF r.err = "none" THEN [buf |-> 3, shape |-> out.shape] ELSE NoArr]
           /\ hist' = hist \cup {Outcome(out)}
    /\ UNCHANGED args0

\* project_impl(K, Rt, points) on the corners unprojected before
Project ==
    /\ env.kind = "geom"
    /\ env.points # NoArr
    /\ \E r \in {project_impl(heap, env.K, env.Rt, env.points)} :
       \E out \in {Returned("project_impl", r)} :
           /\ ret' = out
           /\ heap' = SubSeq(r.hp, 1, 3)
           /\ hist' = hist \cup {Outcome(out)}
    /\ UNCHANGED <<env, args0>>

NextGeom == Unproject \/ Project

SpecGeom == InitGeom /\ [][NextGeom]_vars

\* The image of shape (h, w, c) with pixel [y, x, ch] =
\* ((a*y + b*x + ch + 1) mod (MaxVal + 1)) * 10^e.
ImageData(h, w, c, a, b, e) ==
    [q \in 1..(h * w * c) |->
        LET y  == (q - 1) \div (w * c)
            x  == ((q - 1) \div c) % w
            ch == (q - 1) % c
        IN  Dec((a * y + b * x + ch + 1) % (MaxVal + 1), e)]

\* The images: "flat", one colour (a value per channel); "ramp", values that
\* change along both axes, unlike their transpose; "faint", the ramp scaled
\* down by 10^TinyExp.
InitPatch ==
    \E h, w \in 1..MaxSide, c \in 1..MaxChan, look \in {"flat", "ramp", "faint"},
       ncc_size \in 1..MaxNcc :
        /\ heap = <<Buffer(ImageData(h, w, c, IF look = "flat" THEN 0 ELSE 1,
                                     IF look = "flat" THEN 0 ELSE 2,
                                     IF look = "faint" THEN -TinyExp ELSE 0))>>
        /\ env = [NoEnv EXCEPT !.kind = "patch",
                               !.image = [buf |-> 1, shape |-> <<h, w, c>>],
                               !.ncc_size = ncc_size]
        /\ ret = NoRet
        /\ hist = {}
        /\ args0 = heap

\* feat = preprocess_ncc_impl(image, ncc_size)
Preprocess ==
    /\ env.kind = "patch"
    /\ \E r \in {preprocess_ncc_impl(heap, env.image, env.ncc_size)} :
       \E out \in {Returned("preprocess_ncc_impl", r)} :
           /\ ret' = out
           /\ heap' = SubSeq(r.hp, 1, 1) \o (IF r.err = "none" THEN <<out.data>> ELSE <<>>)
           /\ env' = [env EXCEPT !.feat =
                         IF r.err = "none" THEN [buf |-> 2, shape |-> out.shape] ELSE NoArr]
           /\ hist' = hist \cup {Outcome(out)}
    /\ UNCHANGED args0

\* compute_ncc_impl(feat, feat) on the field preprocessed before
ComputeNccSelf ==
    /\ env.kind = "patch"
    /\ env.feat # NoArr
    /\ \E r \in {compute_ncc_impl(heap, env.feat, env.feat)} :
       \E out \in {Returned("compute_ncc_impl", r)} :
           /\ ret' = out
           /\ heap' = SubSeq(r.hp, 1, 2)
           /\ hist' = hist \cup {Outcome(out)}
    /\ UNCHANGED <<env, args0>>

NextPatch == Preprocess \/ ComputeNccSelf

SpecPatch == InitPatch /\ [][NextPatch]_vars

RECURSIVE Pow3(_)
Pow3(k) == IF k = 0 THEN 1 ELSE 3 * Pow3(k - 1)

\* The feature field of shape (h, w, len) whose pixel number p (row-major,
\* from 0) holds the vector number (seed + p) mod 3^len of {-1, 0, 1}^len.
FieldData(h, w, len, seed) ==
    [q \in 1..(h * w * len) |->
        LET p   == (q - 1) \div len
            u   == (q - 1) % len
            idx == (seed + p) % Pow3(len)
        IN  Whole(((idx \div Pow3(u)) % 3) - 1)]

\* The shape of the second field, by the way it differs from the first
\* ("self": the second field is the first array itself).
SecondShape(h, w, len, mode) ==
    CASE mode \in {"same", "self"} -> <<h, w, len>>
      [] mode = "swap" -> <<w, h, len>>
      [] mode = "tall" -> <<h + 1, w, len>>
      [] mode = "long" -> <<h, w, len + 1>>
      [] mode = "fold" -> <<1, h * w, len>>
      [] mode = "wide" -> <<h, w * len, 1>>

InitCorr ==
    \E h, w \in 1..MaxFieldSide, len \in {1, 2},
       mode \in {"self", "same", "swap", "tall", "long", "fold", "wide"} :
    \E seed1 \in 0..(Pow3(len) - 1),
       seed2 \in 0..(Pow3(SecondShape(h, w, len, mode)[3]) - 1) :
        LET s2 == SecondShape(h, w, len, mode)
        IN  /\ heap = IF mode = "self" THEN <<Buffer(FieldData(h, w, len, seed1))>>
                      ELSE <<Buffer(FieldData(h, w, len, seed1)),
                             Buffer(FieldData(s2[1], s2[2], s2[3], seed2))>>
            /\ env = [NoEnv EXCEPT !.kind = "corr",
                                   !.image1 = [buf |-> 1, shape |-> <<h, w, len>>],
                                   !.image2 = IF mode = "self"
                                              THEN [buf |-> 1, shape |-> <<h, w, len>>]
                                              ELSE [buf |-> 2, shape |-> s2]]
            /\ ret = NoRet
            /\ hist = {}
            /\ args0 = heap

\* compute_ncc_impl(image1, image2); with image2 the very array image1 it is
\* the call compute_ncc_impl(f, f).
ComputeNcc ==
    /\ env.kind = "corr"
    /\ \E r \in {compute_ncc_impl(heap, env.image1, env.image2)} :
       \E out \in {Returned("compute_ncc_impl", r)} :
           /\ ret' = out
           /\ heap' = SubSeq(r.hp, 1, Len(heap))
           /\ hist' = hist \cup {Outcome(out)}
    /\ UNCHANGED <<env, args0>>

NextCorr == ComputeNcc

SpecCorr == InitCorr /\ [][NextCorr]_vars

Init == InitGeom \/ InitPatch \/ InitCorr

Next == Unproject \/ Project \/ Preprocess \/ ComputeNccSelf \/ ComputeNcc

Spec == Init /\ [][Next]_vars

\* ------------------------------------------------------------------ claims

\* C3: projecting the four corners that unproject_corners_impl returned for a
\* non-zero depth, with the same intrinsics and extrinsics, gives back the
\* image corners: cell [i][j] holds ((width - 1) * j, (height - 1) * i).
RoundTripReproducesCorners ==
    (ret.fn = "project_impl" /\ ~IsZero(env.depth)) =>
        /\ ret.err = "none"
        /\ ret.shape = <<2, 2, 2>>
        /\ \A i, j \in {0, 1} :
            /\ ret.data[Offset(<<2, 2, 2>>, <<i, j, 0>>) + 1] = Whole((env.width - 1) * j)
            /\ ret.data[Offset(<<2, 2, 2>>, <<i, j, 1>>) + 1] = Whole((env.height - 1) * i)

\* A round trip at a negative depth of an image two pixels wide and high.
RoundTripDone ==
    /\ ret.fn = "project_impl"
    /\ env.depth = Whole(-1)
    /\ env.width = 2
    /\ env.height = 2
    /\ ret.err = "none"

\* --- preprocess_ncc_impl: what the claims speak of, read off the caller's
\* state after a call of preprocess_ncc_impl(image, ncc_size).

PreprocessCalled == env.kind = "patch" /\ ret.fn = "preprocess_ncc_impl"

PreprocessReturned == PreprocessCalled /\ ret.err = "none"

OddWindow == env.ncc_size % 2 = 1

ImgH == env.image.shape[1]

ImgW == env.image.shape[2]

ImgC == env.image.shape[3]

\* k of windowSize = 2k + 1
Half == env.ncc_size \div 2

\* The length of a pixel's vector: channels * windowSize^2.
VecLen == ImgC * env.ncc_size * env.ncc_size

Pixels == (0..(ImgH - 1)) \X (0..(ImgW - 1))

\* The pixels whose window lies inside the image.
Interior(p) ==
    /\ Half <= p[1] /\ p[1] < ImgH - Half
    /\ Half <= p[2] /\ p[2] < ImgW - Half

\* image[y, x, ch]
ImageAt(y, x, ch) == heap[1][(y * ImgW + x) * ImgC + ch + 1]

\* The vector the call returned for pixel p, as a sequence.
OutVec(p) == [idx \in 1..VecLen |-> ret.data[(p[1] * ImgW + p[2]) * VecLen + idx]]

\* The image has one colour: every pixel equals pixel (0, 0), channel by channel.
ConstantColour == \A q \in DOMAIN heap[1] : heap[1][q] = heap[1][((q - 1) % ImgC) + 1]

\* C1: for an image of any shape, smaller than the window or not, and an odd
\* windowSize = 2k + 1, the call returns an h x w field whose vectors in rows
\* [0, k) and [h - k, h) and in columns [0, k) and [w - k, w) are all zeros.
BoundaryZeroed ==
    (PreprocessCalled /\ OddWindow) =>
        /\ ret.err = "none"
        /\ ret.shape = <<ImgH, ImgW, VecLen>>
        /\ \A p \in Pixels : ~Interior(p) => \A idx \in 1..VecLen : OutVec(p)[idx] = Zero

\* The call on a 3 x 3 image with a window of side 5 has raised ValueError.
SmallImageRaised ==
    /\ PreprocessCalled
    /\ env.ncc_size = 5
    /\ ImgH = 3
    /\ ImgW = 3
    /\ ret.err = "ValueError"

\* C5: for an even windowSize the call ends in an error; it does not return
\* a field.
EvenWindowRejected ==
    (PreprocessCalled /\ ~OddWindow) => ret.err # "none"

\* The call with a window of side 2 has returned a field.
EvenWindowReturned ==
    /\ PreprocessReturned
    /\ env.ncc_size = 2
    /\ ret.shape = <<ImgH, ImgW, VecLen>>

\* C7: for an image of one colour, at least windowSize high and wide
\* (windowSize odd), the call returns without error a field of finite values
\* that are all zero.
ConstantImageGivesZeros ==
    (PreprocessCalled /\ OddWindow /\ ConstantColour
        /\ ImgH >= env.ncc_size /\ ImgW >= env.ncc_size) =>
        /\ ret.err = "none"
        /\ ret.shape = <<ImgH, ImgW, VecLen>>
        /\ \A q \in DOMAIN ret.data : IsFinite(ret.data[q]) /\ ret.data[q] = Zero

\* A call on a two-channel one-colour image that has interior pixels for a
\* window of side 3.
ConstantImageDone ==
    /\ PreprocessReturned
    /\ env.ncc_size = 3
    /\ ConstantColour
    /\ ImgC = 2
    /\ heap[1][1] # heap[1][2]
    /\ \E p \in Pixels : Interior(p)

\* The array normalized as the loops of lines 164-179 left it, before the
\* normalization: the first of the seven arrays the call allocated.
Patches == ret.frame[Len(ret.frame) - 6]

\* The window of pixel p in the order of the claim: channel, then window
\* row, then window column.
Window(p) ==
    [idx \in 1..VecLen |->
        LET ch == (idx - 1) \div (env.ncc_size * env.ncc_size)
            i  == ((idx - 1) \div env.ncc_size) % env.ncc_size
            j  == (idx - 1) % env.ncc_size
        IN  ImageAt(p[1] - Half + i, p[2] - Half + j, ch)]

\* The mean of the block of channel ch (from 0) of the vector v.
ChanMean(v, ch) ==
    LET m == env.ncc_size * env.ncc_size
    IN  Div(SumTo([u \in 1..m |-> v[ch * m + u]], m), Whole(m))

\* v with the mean of each channel block subtracted from that block.
MeanSub(v) ==
    [idx \in 1..Len(v) |->
        Sub(v[idx], ChanMean(v, (idx - 1) \div (env.ncc_size * env.ncc_size)))]

\* The Euclidean norm of the whole vector v.
NormOf(v) == Sqrt(SumTo([u \in 1..Len(v) |-> Mul(v[u], v[u])], Len(v)))

\* C6: for an interior pixel (y, x) the element ch*windowSize^2 + i*windowSize
\* + j of the vector before normalization is image[y-k+i, x-k+j, ch], and the
\* normalization keeps every element in its place: two neighbours of a
\* channel block differ in the output by their difference in the image
\* divided by the norm (where the norm reaches the threshold of line 190).
FlatteningOrder ==
    (PreprocessReturned /\ OddWindow) =>
        \A p \in {q \in Pixels : Interior(q)} :
            /\ \A ch \in 0..(ImgC - 1), i, j \in 0..(env.ncc_size - 1) :
                  Patches[(p[1] * ImgW + p[2]) * VecLen
                          + ch * env.ncc_size * env.ncc_size + i * env.ncc_size + j + 1]
                      = ImageAt(p[1] - Half + i, p[2] - Half + j, ch)
            /\ \A win \in {Buffer(Window(p))}, out \in {Buffer(OutVec(p))} :
               \A nrm \in {NormOf(Buffer(MeanSub(win)))} :
                  Geq(nrm, NormThreshold) =>
                      \A a \in 1..(VecLen - 1) :
                          a % (env.ncc_size * env.ncc_size) # 0 =>
                              Sub(out[a + 1], out[a]) = Div(Sub(win[a + 1], win[a]), nrm)

\* A call with a window of side 3 on a two-channel image that differs from
\* its transpose, with an interior pixel whose norm reaches the threshold.
FlatteningDone ==
    /\ PreprocessReturned
    /\ env.ncc_size = 3
    /\ ImgC = 2
    /\ ImgH >= 3
    /\ ImgW >= 3
    /\ ImageAt(0, 1, 0) # ImageAt(1, 0, 0)
    /\ \E p \in Pixels : Interior(p) /\ \E idx \in 1..VecLen : OutVec(p)[idx] # Zero

\* The statement of C9 as it is worded: at every interior pixel each channel
\* block of the output sums to zero and the output is the per-channel
\* mean-subtracted window divided by its norm over all channels, whenever
\* that norm is not zero.
PerChannelMeanGlobalNormAlways ==
    (PreprocessReturned /\ OddWindow) =>
        \A p \in {q \in Pixels : Interior(q)} :
        \A sub \in {Buffer(MeanSub(Buffer(Window(p))))}, out \in {Buffer(OutVec(p))} :
        \A nrm \in {NormOf(sub)} :
            /\ \A ch \in 0..(ImgC - 1) : IsZero(ChanMean(out, ch))
            /\ ~IsZero(nrm) => out = Buffer([idx \in 1..VecLen |-> Div(sub[idx], nrm)])

\* C9: at every interior pixel each channel block of the output sums to
\* zero; the output is the window, less the mean of each channel block taken
\* over that block alone, divided by the one norm of the whole vector when
\* that norm is at least 1e-6, and the zero vector when it is smaller.
PerChannelMeanGlobalNorm ==
    (PreprocessReturned /\ OddWindow) =>
        \A p \in {q \in Pixels : Interior(q)} :
        \A sub \in {Buffer(MeanSub(Buffer(Window(p))))}, out \in {Buffer(OutVec(p))} :
        \A nrm \in {NormOf(sub)} :
            /\ \A ch \in 0..(ImgC - 1) : IsZero(ChanMean(out, ch))
            /\ out = Buffer([idx \in 1..VecLen |->
                                IF Geq(nrm, NormThreshold) THEN Div(sub[idx], nrm) ELSE Zero])

\* A call that returned, for a window of side 3 on a two-channel image whose
\* channels have different means, a non-zero vector at an interior pixel.
PerChannelDone ==
    /\ PreprocessReturned
    /\ env.ncc_size = 3
    /\ ImgC = 2
    /\ \E p \in Pixels :
          /\ Interior(p)
          /\ ChanMean(Buffer(Window(p)), 0) # ChanMean(Buffer(Window(p)), 1)
          /\ \E idx \in 1..VecLen : OutVec(p)[idx] # Zero

\* --- compute_ncc_impl: what the claims speak of, read off the caller's
\* state after a call of compute_ncc_impl(image1, image2).

CorrelateCalled == env.kind = "corr" /\ ret.fn = "compute_ncc_impl"

FieldH == env.image1.shape[1]

FieldW == env.image1.shape[2]

\* The vector of pixel t (row-major, from 0) of the field a, as a sequence.
FieldVec(a, t) == [u \in 1..a.shape[3] |-> heap[a.buf][t * a.shape[3] + u]]

\* The sum of the products of the elements of two vectors of one length.
Inner(v1, v2) == SumTo([u \in 1..Len(v1) |-> Mul(v1[u], v2[u])], Len(v1))

AllZero(v) == \A u \in 1..Len(v) : v[u] = Zero

\* C4: compute_ncc_impl(f, f) returns the score 1 at every pixel whose
\* vector in f is not all zeros, and the score 0 at every pixel whose vector
\* is all zeros.
SelfCorrelation ==
    (CorrelateCalled /\ env.image2 = env.image1) =>
        /\ ret.err = "none"
        /\ ret.shape = <<FieldH, FieldW>>
        /\ \A t \in 0..(FieldH * FieldW - 1) :
              ret.data[t + 1] = IF AllZero(FieldVec(env.image1, t)) THEN Zero ELSE One

\* A field correlated with itself that holds a zero vector, a vector of
\* norm 1 and a vector of norm sqrt(2).
SelfCorrelationDone ==
    /\ CorrelateCalled
    /\ env.image2 = env.image1
    /\ ret.err = "none"
    /\ \E t \in 0..(FieldH * FieldW - 1) : AllZero(FieldVec(env.image1, t))
    /\ \E t \in 0..(FieldH * FieldW - 1) :
          Inner(FieldVec(env.image1, t), FieldVec(env.image1, t)) = One
    /\ \E t \in 0..(FieldH * FieldW - 1) :
          Inner(FieldVec(env.image1, t), FieldVec(env.image1, t)) = Whole(2)

\* C8: for two fields of one shape the call returns, without error, a finite
\* score at every pixel: 0 where sqrt(sum(v1^2) * sum(v2^2)) is zero, and
\* sum(v1*v2) / sqrt(sum(v1^2) * sum(v2^2)) elsewhere.
ZeroDenominator ==
    (CorrelateCalled /\ env.image1.shape = env.image2.shape) =>
        /\ ret.err = "none"
        /\ ret.shape = <<FieldH, FieldW>>
        /\ \A t \in 0..(FieldH * FieldW - 1) :
           \A v1 \in {Buffer(FieldVec(env.image1, t))}, v2 \in {Buffer(FieldVec(env.image2, t))} :
           \A den \in {Sqrt(Mul(Inner(v1, v1), Inner(v2, v2)))} :
              /\ IsFinite(ret.data[t + 1])
              /\ ret.data[t + 1] = IF IsZero(den) THEN Zero ELSE Div(Inner(v1, v2), den)

\* Two different fields of one shape correlated: one pixel where a vector
\* is all zeros, and one pixel whose two vectors differ in norm and
\* correlate to a score that is neither 0 nor 1.
ZeroDenominatorDone ==
    /\ CorrelateCalled
    /\ env.image1.shape = env.image2.shape
    /\ env.image1.buf # env.image2.buf
    /\ ret.err = "none"
    /\ \E t \in 0..(FieldH * FieldW - 1) :
          AllZero(FieldVec(env.image1, t)) \/ AllZero(FieldVec(env.image2, t))
    /\ \E t \in 0..(FieldH * FieldW - 1) :
          /\ Inner(FieldVec(env.image1, t), FieldVec(env.image1, t))
                # Inner(FieldVec(env.image2, t), FieldVec(env.image2, t))
          /\ ret.data[t + 1] \notin {Zero, One}

\* C2: for two fields whose shapes differ in height, width or vector length
\* the call ends in an error; it returns no score field.
ShapeMismatchRejected ==
    (CorrelateCalled /\ env.image1.shape # env.image2.shape) => ret.err # "none"

\* The call on a 1 x 2 field and a 2 x 1 field has returned 1 x 2 scores.
MismatchScored ==
    /\ CorrelateCalled
    /\ env.image1.shape = <<1, 2, 1>>
    /\ env.image2.shape = <<2, 1, 1>>
    /\ ret.err = "none"
    /\ ret.shape = <<1, 2>>

\* C10: no call changes an array passed to it.  The arrays the caller
\* made (K, Rt, image, image1, image2) hold at all times what they held at
\* the start, with their shapes (env changes only by the results stored); an
\* array a call returned and a later call was given (points, the feature
\* field) holds what was returned; and the calls of one kernel, whose
\* arguments are the same every time, have all returned the same result.
Purity ==
    /\ Len(heap) >= Len(args0)
    /\ SubSeq(heap, 1, Len(args0)) = args0
    /\ \A q \in (Len(args0) + 1)..Len(heap) :
          \E o \in hist : o.err = "none" /\ o.data = heap[q]
    /\ \A a, b \in hist : a.fn = b.fn => a = b

\* unproject_corners_impl called again after project_impl had been called
\* on the points of its first call.
Repeated ==
    /\ ret.fn = "unproject_corners_impl"
    /\ ret.err = "none"
    /\ \E o \in hist : o.fn = "project_impl"

====
